---- MODULE Spec2Model ----
(***************************************************************************)
(* Token / session lifecycle of the api service's AuthService, the auth    *)
(* service's logout consumer and the publishing side of UserService.       *)
(***************************************************************************)
EXTENDS Integers, FiniteSets, Sequences, TLC

\* ---------------------------------------------------------------- bounds
NumUsers == 2
NumProcs == 2
MaxIds == 3
MaxTime == 3
MaxTTL == 2
MaxPairs == 1
MaxEvents == 3
MaxLog == 3

Users == 1..NumUsers
Procs == 1..NumProcs

\* JavaScript undefined / null: an absent payload field, a findOne() miss.
Undefined == 0

Email(u) == <<"email", u>>

VARIABLES
  now,                \* wall clock in seconds (jsonwebtoken's clockTimestamp)
  accessExpiresIn,    \* configService.jwtAuthConfig.accessExpiresIn
  refreshExpiresIn,   \* configService.jwtAuthConfig.refreshExpiresIn
  sessions,           \* rows of the Session table
  nextTokenId,        \* uuid.v4() values handed out so far
  procs,              \* in-flight calls of updateTokens / refreshToken
  held,               \* the { _at, _rt } pairs that were returned to a caller
  bus,                \* messages published and not yet acknowledged
  reply,              \* the outcome of a call that ended in the step just taken
  users,              \* rows of the User table (userRepository)
  hashes,             \* rows of the ConfirmationHash table
  authTopic,          \* log_auth_action events published, oldest first
  userTopic,          \* events published through userClient and cryptoClient
  auditLog            \* the InformationLog collection of the auth service

\* The state of UserService's identity operations and of the audit log.
identityVars == <<users, hashes, authTopic, userTopic, auditLog>>

vars == <<now, accessExpiresIn, refreshExpiresIn, sessions, nextTokenId,
          procs, held, bus, reply, identityVars>>

\* ---------------------------------------------------------------- tokens
Secret == "secret"

NoPayload ==
  [type |-> "none", userId |-> Undefined, email |-> <<>>, id |-> Undefined,
   iat |-> Undefined, exp |-> Undefined]

\* The three shapes of string a caller can present.
EmptyToken == [form |-> "empty", payload |-> NoPayload, sig |-> "none"]
GarbageToken == [form |-> "garbage", payload |-> NoPayload, sig |-> "none"]

\* JwtService.sign(payload, {expiresIn, secret}): iat and exp are added to
\* the payload, the whole is signed with the secret.
JwtSign(payload, expiresIn, secret, clock) ==
  [form |-> "jwt",
   payload |-> [payload EXCEPT !.iat = clock, !.exp = clock + expiresIn],
   sig |-> secret]

generateAccessToken(userId, email, expiresIn, clock) ==
  JwtSign([NoPayload EXCEPT !.userId = userId, !.email = email,
                            !.type = "access"],
          expiresIn, Secret, clock)

generateRefreshToken(id, expiresIn, clock) ==
  [id |-> id,
   token |-> JwtSign([NoPayload EXCEPT !.id = id, !.type = "refresh"],
                     expiresIn, Secret, clock)]

\* A token whose signature does not match its content.
Tamper(t) == [t EXCEPT !.sig = "forged"]

\* jsonwebtoken's error classes: TokenExpiredError extends JsonWebTokenError.
IsInstance(err, cls) ==
  \/ err = cls
  \/ err = "TokenExpiredError" /\ cls = "JsonWebTokenError"

\* verify with the expiry test off by one second.
JwtVerifyEarly(token, secret, clock) ==
  IF token.form # "jwt" \/ token.sig # secret
    THEN [ok |-> FALSE, error |-> "JsonWebTokenError", payload |-> NoPayload]
  ELSE IF clock + 1 >= token.payload.exp
    THEN [ok |-> FALSE, error |-> "TokenExpiredError", payload |-> NoPayload]
  ELSE [ok |-> TRUE, error |-> "none", payload |-> token.payload]

\* verify with ignoreExpiration set.
JwtVerifyIgnoreExpiration(token, secret, clock) ==
  IF token.form # "jwt" \/ token.sig # secret
    THEN [ok |-> FALSE, error |-> "JsonWebTokenError", payload |-> NoPayload]
  ELSE [ok |-> TRUE, error |-> "none", payload |-> token.payload]

\* JwtService.verify(token, {secret}): structure, then signature, then expiry
\* (expired when clockTimestamp >= exp).
JwtVerify(token, secret, clock) ==
  IF token.form = "empty"
    THEN [ok |-> FALSE, error |-> "JsonWebTokenError", payload |-> NoPayload]
  ELSE IF token.form # "jwt"
    THEN [ok |-> FALSE, error |-> "JsonWebTokenError", payload |-> NoPayload]
  ELSE IF token.sig # secret
    THEN [ok |-> FALSE, error |-> "JsonWebTokenError", payload |-> NoPayload]
  ELSE IF clock >= token.payload.exp
    THEN [ok |-> FALSE, error |-> "TokenExpiredError", payload |-> NoPayload]
  ELSE [ok |-> TRUE, error |-> "none", payload |-> token.payload]

\* The catch block with the two instanceof tests in the other order.
ClassifyErrorSwapped(error) ==
  IF IsInstance(error, "JsonWebTokenError") THEN "InvalidTokenException"
  ELSE IF IsInstance(error, "TokenExpiredError") THEN "ExpiredTokenException"
  ELSE "SessionHasExpiredException"

\* The catch block of verifyToken.
ClassifyError(error) ==
  IF IsInstance(error, "TokenExpiredError") THEN "ExpiredTokenException"
  ELSE IF IsInstance(error, "JsonWebTokenError") THEN "InvalidTokenException"
  ELSE "SessionHasExpiredException"

\* verifyToken with a revocation check: an access token is refused once its
\* user has no session.
verifyTokenOfLiveSession(token, clock) ==
  LET r == JwtVerify(token, Secret, clock) IN
  IF r.ok /\ r.payload.type = "access"
          /\ \A row \in sessions : row.userId # r.payload.userId
    THEN [ok |-> FALSE, error |-> "SessionHasExpiredException",
          payload |-> NoPayload]
  ELSE IF r.ok THEN [ok |-> TRUE, error |-> "none", payload |-> r.payload]
  ELSE [ok |-> FALSE, error |-> ClassifyError(r.error), payload |-> NoPayload]

verifyToken(token, clock) ==
  LET r == JwtVerify(token, Secret, clock) IN
  IF r.ok THEN [ok |-> TRUE, error |-> "none", payload |-> r.payload]
  ELSE [ok |-> FALSE, error |-> ClassifyError(r.error), payload |-> NoPayload]

\* A test for undefined alone, which the empty string passes.
IsUndefinedOnly(token) == token.form = "none"

\* `!tokenRefresh`
IsFalsy(token) == token.form = "empty"

\* The tokens some client was given.
HeldTokens == {h._at : h \in held} \cup {h._rt : h \in held}

\* What can be sent as a token string: a token some client was given,
\* nothing, a string that is no token, or a token that was altered.
Presentable ==
  HeldTokens \cup {EmptyToken, GarbageToken} \cup {Tamper(t) : t \in HeldTokens}

\* ---------------------------------------------------------------- session table
RowsOfUser(rows, userId) == {r \in rows : r.userId = userId}
RowsOfToken(rows, tokenId) == {r \in rows : r.tokenId = tokenId}

\* The primary key the table gives a new row. Keys are opaque and unique, as
\* are uuid.v4() token ids, so a row's key is named after its token id.
NewRowId(tokenId) == tokenId

\* destroy({ where: { userId }, limit: 1 })
DestroyOneWhereUserId(rows, userId) ==
  IF RowsOfUser(rows, userId) = {} THEN rows
  ELSE rows \ {CHOOSE r \in RowsOfUser(rows, userId) : TRUE}

\* sessionRepository.destroy({ where: { userId } })
DestroyWhereUserId(rows, userId) == rows \ RowsOfUser(rows, userId)

\* The number destroy({ where: { userId } }) resolves to: the rows deleted.
DestroyCount(rows, userId) == Cardinality(RowsOfUser(rows, userId))

\* sessionRepository.destroy({ where: { id } })
DestroyWhereId(rows, id) == {r \in rows : r.id # id}

\* ---------------------------------------------------------------- processes
NoToken == [form |-> "none", payload |-> NoPayload, sig |-> "none"]

\* A slot holds the locals of one call while it is suspended on an await or
\* on the reply of the users service.
IdleProc ==
  [op |-> "idle", pc |-> "idle", tok |-> NoToken, payload |-> NoPayload,
   token |-> Undefined,
   userId |-> Undefined, at |-> NoToken, rt |-> NoToken, rtId |-> Undefined,
   cur |-> Undefined, ret |-> "none"]

\* The outcome of a call that has left its slot (or never took one): the
\* operation, the token it was given, what it returned ("throw": it raised
\* `error`), and the payload when it returned one. Any other step leaves
\* NoReply; a call still in a slot carries what it returned in `ret`.
Response(op, tok, ret, error, payload) ==
  [op |-> op, tok |-> tok, ret |-> ret, error |-> error, payload |-> payload]

NoReply == Response("none", NoToken, "none", "none", NoPayload)

\* A call occupies the lowest free slot.
FreeSlot(p) ==
  /\ procs[p].op = "idle"
  /\ \A q \in Procs : q < p => procs[q].op # "idle"

InitState ==
  /\ now = 0
  /\ sessions = {}
  /\ nextTokenId = 1
  /\ procs = [p \in Procs |-> IdleProc]
  /\ held = {}
  /\ bus = {}
  /\ reply = NoReply
  /\ authTopic = <<>>
  /\ userTopic = <<>>
  /\ auditLog = <<>>

\* No account has been created.
NoAccounts ==
  /\ users = {}
  /\ hashes = {}

\* The service started with one configuration of the two lifetimes.
Init ==
  /\ InitState
  /\ NoAccounts
  /\ accessExpiresIn = MaxTTL
  /\ refreshExpiresIn = MaxTTL

\* Every configuration of the two lifetimes.
CodecInit ==
  /\ InitState
  /\ NoAccounts
  /\ accessExpiresIn \in 1..MaxTTL
  /\ refreshExpiresIn \in 1..MaxTTL

\* The synchronous head of updateTokens: both tokens are generated, then
\* updateRefreshToken starts and suspends on its findOne.
BeginUpdateTokens(rec, userId, email) ==
  [rec EXCEPT
     !.pc = "findOne",
     !.userId = userId,
     !.at = generateAccessToken(userId, email, accessExpiresIn, now),
     !.rt = generateRefreshToken(nextTokenId, refreshExpiresIn, now).token,
     !.rtId = generateRefreshToken(nextTokenId, refreshExpiresIn, now).id]

\* updateTokens that does not await updateRefreshToken: the pair is handed
\* to the caller while the session is still to be written.
UpdateTokensUnawaited(p, u) ==
  /\ FreeSlot(p)
  /\ nextTokenId <= MaxIds
  /\ procs' = [procs EXCEPT ![p] =
       BeginUpdateTokens([IdleProc EXCEPT !.op = "issue", !.ret = "pending"],
                         u, Email(u))]
  /\ held' = held \cup {[_at |-> procs'[p].at, _rt |-> procs'[p].rt]}
  /\ nextTokenId' = nextTokenId + 1
  /\ reply' = Response("updateTokens", NoToken, "pair", "none", NoPayload)
  /\ UNCHANGED identityVars
  /\ UNCHANGED <<now, accessExpiresIn, refreshExpiresIn, sessions, bus>>

\* updateTokens called by a sign-in for user u.
UpdateTokens(p, u) ==
  /\ FreeSlot(p)
  /\ nextTokenId <= MaxIds
  /\ procs' = [procs EXCEPT ![p] =
       BeginUpdateTokens([IdleProc EXCEPT !.op = "issue", !.ret = "pending"],
                         u, Email(u))]
  /\ nextTokenId' = nextTokenId + 1
  /\ reply' = NoReply
  /\ UNCHANGED identityVars
  /\ UNCHANGED <<now, accessExpiresIn, refreshExpiresIn, sessions, held, bus>>

\* A row that is given a uuid of its own, drawn apart from the one put in
\* the refresh token.
NewRowOwnTokenId(rec) ==
  [id |-> NewRowId(rec.rtId), userId |-> rec.userId,
   tokenId |-> rec.rtId + MaxIds + 1, via |-> rec.payload.id]

\* The row create({ userId, tokenId }) inserts. `via` is history, not a
\* column: the id carried by the refresh token whose presentation led to the
\* row (Undefined for a sign-in).
NewRow(rec) ==
  [id |-> NewRowId(rec.rtId), userId |-> rec.userId, tokenId |-> rec.rtId,
   via |-> rec.payload.id]

\* updateRefreshToken with the two writes in the other order: the new row is
\* inserted as soon as the current one is found, and the current one is
\* deleted afterwards.
FindOneThenCreate(p) ==
  /\ procs[p].pc = "findOne"
  /\ LET mine == RowsOfUser(sessions, procs[p].userId) IN
     \/ /\ mine = {}
        /\ procs' = [procs EXCEPT ![p].cur = Undefined, ![p].pc = "create"]
        /\ sessions' = sessions
     \/ \E r \in mine :
          /\ procs' = [procs EXCEPT ![p].cur = r.id, ![p].pc = "destroy"]
          /\ sessions' = sessions \cup {NewRow(procs[p])}
  /\ reply' = NoReply
  /\ UNCHANGED identityVars
  /\ UNCHANGED <<now, accessExpiresIn, refreshExpiresIn, nextTokenId, held,
                 bus>>

\* updateRefreshToken: findOne({ where: { userId } }). With several matching
\* rows the database picks the one it returns.
FindOne(p) ==
  /\ procs[p].pc = "findOne"
  /\ LET mine == RowsOfUser(sessions, procs[p].userId) IN
     \/ /\ mine = {}
        /\ procs' = [procs EXCEPT ![p].cur = Undefined, ![p].pc = "create"]
     \/ \E r \in mine :
          procs' = [procs EXCEPT ![p].cur = r.id, ![p].pc = "destroy"]
  /\ reply' = NoReply
  /\ UNCHANGED identityVars
  /\ UNCHANGED <<now, accessExpiresIn, refreshExpiresIn, sessions,
                 nextTokenId, held, bus>>

\* updateRefreshToken: destroy({ where: { id: currentSession.id } }).
Destroy(p) ==
  /\ procs[p].pc = "destroy"
  /\ sessions' = DestroyWhereId(sessions, procs[p].cur)
  /\ procs' = [procs EXCEPT ![p].pc = "create"]
  /\ reply' = NoReply
  /\ UNCHANGED identityVars
  /\ UNCHANGED <<now, accessExpiresIn, refreshExpiresIn, nextTokenId, held,
                 bus>>

\* create against a table with a unique index on userId: the insert is
\* refused while the user has a row.
CreateUnique(p) ==
  /\ procs[p].pc = "create"
  /\ procs' = [procs EXCEPT ![p] = IdleProc]
  /\ IF RowsOfUser(sessions, procs[p].userId) # {}
       THEN /\ sessions' = sessions
            /\ held' = held
            /\ reply' = Response("updateTokens", NoToken, "throw",
                                  "DuplicateSession", NoPayload)
     ELSE /\ sessions' = sessions \cup {NewRow(procs[p])}
          /\ held' = IF procs[p].op = "issue"
                       THEN held \cup {[_at |-> procs[p].at, _rt |-> procs[p].rt]}
                     ELSE held
          /\ reply' = IF procs[p].op = "issue"
                        THEN Response("updateTokens", NoToken, "pair", "none",
                                      NoPayload)
                      ELSE NoReply
  /\ UNCHANGED identityVars
  /\ UNCHANGED <<now, accessExpiresIn, refreshExpiresIn, nextTokenId, bus>>

\* updateRefreshToken: create({ userId, tokenId }); updateTokens then returns
\* { _at, _rt }. Called by sign-in the pair reaches the caller; called from the
\* subscribe callback of refreshToken the pair is the callback's return value,
\* which nothing reads.
Create(p) ==
  /\ procs[p].pc = "create"
  /\ sessions' = sessions \cup {NewRow(procs[p])}
  /\ procs' = [procs EXCEPT ![p] = IdleProc]
  /\ IF procs[p].op = "issue"
       THEN /\ held' = held \cup {[_at |-> procs[p].at, _rt |-> procs[p].rt]}
            /\ reply' = Response("updateTokens", NoToken, "pair", "none", NoPayload)
       ELSE /\ held' = held
            /\ reply' = NoReply
  /\ UNCHANGED identityVars
  /\ UNCHANGED <<now, accessExpiresIn, refreshExpiresIn, nextTokenId, bus>>

\* The store rejects the query updateRefreshToken is awaiting (findOne,
\* destroy or create): the rejection passes through the await of updateTokens,
\* which rejects in turn, to the sign-in that called it or inside the
\* subscribe callback. A rejected query has written nothing.
StoreFails(p) ==
  /\ procs[p].pc \in {"findOne", "destroy", "create"}
  /\ procs' = [procs EXCEPT ![p] = IdleProc]
  /\ reply' = Response(IF procs[p].op = "issue" THEN "updateTokens"
                       ELSE "callback",
                       NoToken, "throw", "DatabaseError",
                       [NoPayload EXCEPT !.userId = procs[p].userId,
                                         !.id = procs[p].rtId])
  /\ UNCHANGED identityVars
  /\ UNCHANGED <<now, accessExpiresIn, refreshExpiresIn, sessions,
                 nextTokenId, held, bus>>

\* What is known of a call that ended without returning: its user and the
\* id of the refresh token it had generated.
Interrupted(op, rec) ==
  Response(op, NoToken, "none", "none",
           [NoPayload EXCEPT !.userId = rec.userId, !.id = rec.rtId])

\* The process stops while updateRefreshToken is suspended on one of its
\* awaits: the locals of the call are lost, the table stays as the awaits
\* completed so far left it.
Crash(p) ==
  /\ procs[p].pc \in {"findOne", "destroy", "create"}
  /\ procs' = [procs EXCEPT ![p] = IdleProc]
  /\ reply' = Interrupted("crash", procs[p])
  /\ UNCHANGED identityVars
  /\ UNCHANGED <<now, accessExpiresIn, refreshExpiresIn, sessions,
                 nextTokenId, held, bus>>

\* refreshToken up to its first await: the emptiness test, verifyToken, and
\* the getTokenById query being issued.
RefreshToken(p, tok) ==
  /\ FreeSlot(p)
  /\ LET v == verifyToken(tok, now) IN
     IF IsFalsy(tok)
       THEN /\ reply' = Response("refreshToken", tok, "throw",
                               "CorruptedTokenException", NoPayload)
            /\ procs' = procs
     ELSE IF ~v.ok
       THEN /\ reply' = Response("refreshToken", tok, "throw", v.error, NoPayload)
            /\ procs' = procs
     ELSE /\ reply' = NoReply
          /\ procs' = [procs EXCEPT ![p] =
               [IdleProc EXCEPT !.op = "refresh", !.pc = "lookup", !.tok = tok,
                                !.payload = v.payload, !.ret = "pending"]]
  /\ UNCHANGED identityVars
  /\ UNCHANGED <<now, accessExpiresIn, refreshExpiresIn, sessions,
                 nextTokenId, held, bus>>

RpcRequest(p) == [topic |-> "get_user_by_id", userId |-> Undefined, from |-> p]

\* getTokenById with a miss made fatal (SessionNotFound).
GetTokenByIdOrFail(p) ==
  /\ procs[p].pc = "lookup"
  /\ LET hit == RowsOfToken(sessions, procs[p].payload.id) IN
     \/ /\ hit = {}
        /\ procs' = [procs EXCEPT ![p] = IdleProc]
        /\ reply' = Response("refreshToken", procs[p].tok, "throw",
                              "SessionNotFound", NoPayload)
        /\ bus' = bus
     \/ \E r \in hit :
          /\ procs' = [procs EXCEPT ![p].token = r.id, ![p].pc = "rpc",
                                    ![p].ret = "undefined"]
          /\ reply' = NoReply
          /\ bus' = bus \cup {RpcRequest(p)}
  /\ UNCHANGED identityVars
  /\ UNCHANGED <<now, accessExpiresIn, refreshExpiresIn, sessions,
                 nextTokenId, held>>

\* getTokenById resolves; its result is assigned to `token`, which nothing
\* reads. send('get_user_by_id', {}).subscribe(cb) publishes the request, and
\* refreshToken returns undefined. With payload.id undefined (a token that
\* carries no id) the query either throws or matches nothing, depending on the
\* ORM version.
GetTokenById(p) ==
  /\ procs[p].pc = "lookup"
  /\ \/ /\ procs[p].payload.id = Undefined
        /\ procs' = [procs EXCEPT ![p] = IdleProc]
        /\ reply' = Response("refreshToken", procs[p].tok, "throw", "QueryError",
                              NoPayload)
        /\ bus' = bus
     \/ /\ LET hit == RowsOfToken(sessions, procs[p].payload.id) IN
           \/ /\ hit = {}
              /\ procs' = [procs EXCEPT ![p].token = Undefined, ![p].pc = "rpc",
                                        ![p].ret = "undefined"]
           \/ \E r \in hit :
                procs' = [procs EXCEPT ![p].token = r.id, ![p].pc = "rpc",
                                       ![p].ret = "undefined"]
        /\ reply' = NoReply
        /\ bus' = bus \cup {RpcRequest(p)}
  /\ UNCHANGED identityVars
  /\ UNCHANGED <<now, accessExpiresIn, refreshExpiresIn, sessions,
                 nextTokenId, held>>

\* The subscribe callback runs with the reply `user`. The request carried {},
\* so the reply is whatever the users service answers to an empty query: some
\* user, or nothing (then user.id throws inside the callback).
RpcReply(p, u) ==
  /\ procs[p].pc = "rpc"
  /\ RpcRequest(p) \in bus
  /\ bus' = bus \ {RpcRequest(p)}
  /\ IF u = Undefined
       THEN /\ procs' = [procs EXCEPT ![p] = IdleProc]
            /\ reply' = Response("callback", NoToken, "throw", "TypeError", NoPayload)
            /\ nextTokenId' = nextTokenId
       ELSE /\ nextTokenId <= MaxIds
            /\ procs' = [procs EXCEPT ![p] = BeginUpdateTokens(@, u, Email(u))]
            /\ reply' = NoReply
            /\ nextTokenId' = nextTokenId + 1
  /\ UNCHANGED identityVars
  /\ UNCHANGED <<now, accessExpiresIn, refreshExpiresIn, sessions, held>>

\* The reply the users service publishes for the request of slot p.
RpcReplyMsg(p, u) ==
  [topic |-> "get_user_by_id.reply", userId |-> u, from |-> p]

\* The users service handles a get_user_by_id request: the request carried
\* {}, so the answer is some user or nothing; the reply carries the
\* correlation id of the request it answers.
GetUserById(m, u) ==
  /\ m \in bus
  /\ m.topic = "get_user_by_id"
  /\ bus' = (bus \ {m}) \cup {RpcReplyMsg(m.from, u)}
  /\ reply' = NoReply
  /\ UNCHANGED identityVars
  /\ UNCHANGED <<now, accessExpiresIn, refreshExpiresIn, sessions,
                 nextTokenId, procs, held>>

\* A client that hands the next reply on the topic to whoever waits.
NextReplyOnTopic(m, p) == m.topic = "get_user_by_id.reply"

\* ClientKafka.send(): the observable of a request emits the reply whose
\* correlation id is that of the request.
Correlated(m, p) == m.topic = "get_user_by_id.reply" /\ m.from = p

\* The subscribe callback of slot p runs with a reply taken from the bus.
OnRpcReply(p) ==
  /\ procs[p].pc = "rpc"
  /\ \E m \in bus :
       /\ Correlated(m, p)
       /\ bus' = bus \ {m}
       /\ IF m.userId = Undefined
            THEN /\ procs' = [procs EXCEPT ![p] = IdleProc]
                 /\ reply' = Response("callback", NoToken, "throw", "TypeError",
                                       NoPayload)
                 /\ nextTokenId' = nextTokenId
            ELSE /\ nextTokenId <= MaxIds
                 /\ procs' = [procs EXCEPT ![p] =
                      BeginUpdateTokens(@, m.userId, Email(m.userId))]
                 /\ reply' = NoReply
                 /\ nextTokenId' = nextTokenId + 1
  /\ UNCHANGED identityVars
  /\ UNCHANGED <<now, accessExpiresIn, refreshExpiresIn, sessions, held>>

\* new UserLogoutEvent({}): the event without the user id.
LogoutEventWithoutUser(u) ==
  [topic |-> "user_logout", userId |-> Undefined, from |-> Undefined]

LogoutEvent(u) == [topic |-> "user_logout", userId |-> u, from |-> Undefined]

\* What an operation on behalf of user u returned.
ResponseFor(op, ret, u) ==
  Response(op, NoToken, ret, "none", [NoPayload EXCEPT !.userId = u])

\* UserService.logout: emit('user_logout', { userId }) and return
\* new ResponseDto().
Logout(u) ==
  /\ bus' = bus \cup {LogoutEvent(u)}
  /\ reply' = ResponseFor("logout", "ResponseDto", u)
  /\ UNCHANGED identityVars
  /\ UNCHANGED <<now, accessExpiresIn, refreshExpiresIn, sessions,
                 nextTokenId, procs, held>>

\* The auth service consumes user_logout. The bus delivers at least once:
\* the message stays on the bus until a delivery is acknowledged.
OnUserLogout(m, ack) ==
  /\ m \in bus
  /\ m.topic = "user_logout"
  /\ sessions' = DestroyWhereUserId(sessions, m.userId)
  /\ bus' = IF ack THEN bus \ {m} ELSE bus
  /\ reply' = ResponseFor("user_logout", "destroyed", m.userId)
  /\ UNCHANGED identityVars
  /\ UNCHANGED <<now, accessExpiresIn, refreshExpiresIn, nextTokenId, procs,
                 held>>

\* The api service's own deleteRefreshToken(userId).
DeleteRefreshToken(u) ==
  /\ sessions' = DestroyWhereUserId(sessions, u)
  /\ reply' = NoReply
  /\ UNCHANGED identityVars
  /\ UNCHANGED <<now, accessExpiresIn, refreshExpiresIn, nextTokenId, procs,
                 held, bus>>

\* generateAccessToken and generateRefreshToken called for user u, the pair
\* handed out without a session being written.
GenerateTokens(u) ==
  /\ nextTokenId <= MaxPairs
  /\ held' = held \cup
       {[_at |-> generateAccessToken(u, Email(u), accessExpiresIn, now),
         _rt |-> generateRefreshToken(nextTokenId, refreshExpiresIn, now).token]}
  /\ nextTokenId' = nextTokenId + 1
  /\ reply' = NoReply
  /\ UNCHANGED identityVars
  /\ UNCHANGED <<now, accessExpiresIn, refreshExpiresIn, sessions, procs, bus>>

\* A direct call of verifyToken (the access-token guard, a test).
VerifyToken(tok) ==
  /\ LET v == verifyToken(tok, now) IN
     reply' = Response("verifyToken", tok, IF v.ok THEN "payload" ELSE "throw",
                       v.error, v.payload)
  /\ UNCHANGED identityVars
  /\ UNCHANGED <<now, accessExpiresIn, refreshExpiresIn, sessions,
                 nextTokenId, procs, held, bus>>

Tick ==
  /\ now < MaxTime
  /\ now' = now + 1
  /\ reply' = NoReply
  /\ UNCHANGED identityVars
  /\ UNCHANGED <<accessExpiresIn, refreshExpiresIn, sessions, nextTokenId,
                 procs, held, bus>>

\* ---------------------------------------------------------------- identity
\* What a client can type as an e-mail address, a user name or a password.
Name(u) == <<"name", u>>
BadEmail == <<"email", Undefined>>
Emails == {Email(u) : u \in Users} \cup {BadEmail}
Names == {Name(u) : u \in Users}
WeakPassword == "weak"
Passwords == {"pw1", "pw2", WeakPassword}

\* validatorService.validateEmail / validatePassword
validateEmail(email) == email # BadEmail
validatePassword(password) == password # WeakPassword

\* bcryptjs.hash(password, 10)
BcryptHash(password) == <<"bcrypt", password>>

\* A comparison that accepts any password.
BcryptCompareAny(password, digest) == TRUE

\* bcryptjs.compare(password, digest)
BcryptCompare(password, digest) == digest = BcryptHash(password)

\* crypto.randomBytes(20).toString('hex') drawn for the user with this id.
ConfirmationHashOf(id) == <<"hash", id>>

\* new LogEvent({ event, message, status, timestamp })
LogEvent(event, message, status, timestamp) ==
  [event |-> event, message |-> message, status |-> status,
   timestamp |-> timestamp]

\* client.emit(pattern, data)
Message(pattern, data) == [topic |-> pattern, data |-> data]

\* A topic takes an event while it holds fewer than MaxEvents.
HasRoom(topic, n) == Len(topic) + n <= MaxEvents

\* The id the table gives the next user: ids are opaque and unique.
NewUserId == CHOOSE id \in Users :
  /\ \A r \in users : r.id # id
  /\ \A other \in Users : (\A r \in users : r.id # other) => id <= other

\* The two events signUp emits through userClient and cryptoClient for the
\* user it created.
SignUpEvents(email, userId) ==
  << Message("user_created",
       [email |-> email, userId |-> userId,
        confirmationHash |-> ConfirmationHashOf(userId)]),
     Message("crypto_for_user_created", [userId |-> userId]) >>

\* signUp that emits before it inserts: the events of a rejected insert are
\* already published.
SignUpEmitsFirst(email, username, tac, password) ==
  LET alreadyExistingUser ==
        {r \in users : r.email = email \/ r.username = username}
      throw(e) == /\ reply' = Response("signUp", NoToken, "throw", e, NoPayload)
                  /\ UNCHANGED <<users, authTopic, userTopic>>
  IN
  /\ IF alreadyExistingUser # {} THEN throw("UserAlreadyExistsException")
     ELSE IF ~tac THEN throw("TacNotAcceptedException")
     ELSE IF ~validateEmail(email) \/ ~validatePassword(password)
       THEN throw("ValidationErrorException")
     ELSE /\ \E id \in Users : \A r \in users : r.id # id
          /\ HasRoom(authTopic, 1)
          /\ HasRoom(userTopic, 2)
          /\ authTopic' = Append(authTopic,
               LogEvent("SIGN_UP", <<"created", email>>, "SUCCESS", now))
          /\ userTopic' = userTopic \o SignUpEvents(email, NewUserId)
          /\ \/ /\ users' = users
                /\ reply' = Response("signUp", NoToken, "throw",
                                      "DatabaseError", NoPayload)
             \/ /\ users' = users \cup
                     {[id |-> NewUserId, email |-> email,
                       username |-> username,
                       password |-> BcryptHash(password),
                       accountConfirm |-> FALSE]}
                /\ reply' = Response("signUp", NoToken, "ResponseDto", "none",
                                      NoPayload)
  /\ UNCHANGED <<now, accessExpiresIn, refreshExpiresIn, sessions,
                 nextTokenId, procs, held, bus, hashes, auditLog>>

\* UserService.signUp. A failing check throws before anything is written or
\* emitted; userRepository.create is awaited before the three emits, so a
\* rejected insert throws with nothing emitted.
SignUp(email, username, tac, password) ==
  LET alreadyExistingUser ==
        {r \in users : r.email = email \/ r.username = username}
      throw(e) == /\ reply' = Response("signUp", NoToken, "throw", e, NoPayload)
                  /\ UNCHANGED <<users, authTopic, userTopic>>
  IN
  /\ IF alreadyExistingUser # {} THEN throw("UserAlreadyExistsException")
     ELSE IF ~tac THEN throw("TacNotAcceptedException")
     ELSE IF ~validateEmail(email) \/ ~validatePassword(password)
       THEN throw("ValidationErrorException")
     ELSE \/ throw("DatabaseError")
          \/ /\ \E id \in Users : \A r \in users : r.id # id
             /\ HasRoom(authTopic, 1)
             /\ HasRoom(userTopic, 2)
             /\ users' = users \cup
                  {[id |-> NewUserId, email |-> email, username |-> username,
                    password |-> BcryptHash(password), accountConfirm |-> FALSE]}
             /\ authTopic' = Append(authTopic,
                  LogEvent("SIGN_UP", <<"created", email>>, "SUCCESS", now))
             /\ userTopic' = userTopic \o SignUpEvents(email, NewUserId)
             /\ reply' = Response("signUp", NoToken, "ResponseDto", "none",
                                   NoPayload)
  /\ UNCHANGED <<now, accessExpiresIn, refreshExpiresIn, sessions,
                 nextTokenId, procs, held, bus, hashes, auditLog>>

\* UserService.signIn up to the call of updateTokens, which then runs in
\* slot p.
SignIn(p, email, password) ==
  LET throw(e) == /\ reply' = Response("signIn", NoToken, "throw", e, NoPayload)
                  /\ UNCHANGED <<procs, nextTokenId>>
  IN
  /\ FreeSlot(p)
  /\ \/ /\ \A r \in users : r.email # email
        /\ throw("WrongCredentialsException")
        /\ authTopic' = authTopic
     \/ \E user \in {r \in users : r.email = email} :
          IF ~user.accountConfirm
            THEN /\ HasRoom(authTopic, 1)
                 /\ authTopic' = Append(authTopic,
                      LogEvent("SIGN_IN", <<"unconfirmed", user.email>>, "ERROR",
                               now))
                 /\ throw("AccountNotConfirmedException")
          ELSE IF ~BcryptCompare(password, user.password)
            THEN /\ throw("WrongCredentialsException")
                 /\ authTopic' = authTopic
          ELSE /\ nextTokenId <= MaxIds
               /\ procs' = [procs EXCEPT ![p] =
                    BeginUpdateTokens(
                      [IdleProc EXCEPT !.op = "issue", !.ret = "pending"],
                      user.id, user.email)]
               /\ nextTokenId' = nextTokenId + 1
               /\ reply' = NoReply
               /\ authTopic' = authTopic
  /\ UNCHANGED <<now, accessExpiresIn, refreshExpiresIn, sessions, held, bus,
                 users, hashes, userTopic, auditLog>>

\* UserService.confirmAccount
ConfirmAccount(confirmationHash) ==
  LET throw(e) ==
        reply' = Response("confirmAccount", NoToken, "throw", e, NoPayload)
  IN
  /\ \/ /\ \A r \in hashes : r.confirmationHash # confirmationHash
        /\ throw("HashNotFoundException")
        /\ UNCHANGED <<authTopic, userTopic>>
     \/ \E foundHash \in {r \in hashes : r.confirmationHash = confirmationHash} :
          IF foundHash.confirmed
            THEN /\ HasRoom(authTopic, 1)
                 /\ authTopic' = Append(authTopic,
                      LogEvent("CONFIRMATION", <<"again", foundHash.id>>, "ERROR",
                               now))
                 /\ userTopic' = userTopic
                 /\ throw("EmailAlreadyConfirmedException")
          ELSE /\ HasRoom(authTopic, 1)
               /\ HasRoom(userTopic, 1)
               /\ authTopic' = Append(authTopic,
                    LogEvent("CONFIRMATION", <<"confirmed", foundHash.id>>,
                             "SUCCESS", now))
               /\ userTopic' = Append(userTopic,
                    Message("confirm_user_account",
                            [hashId |-> foundHash.id, userId |-> foundHash.userId]))
               /\ reply' = Response("confirmAccount", NoToken, "ResponseDto",
                                     "none", NoPayload)
  /\ UNCHANGED <<now, accessExpiresIn, refreshExpiresIn, sessions,
                 nextTokenId, procs, held, bus, users, hashes, auditLog>>

\* new this.logger(payload): a document with the fields of the payload and
\* an _id of its own.
InformationLog(payload, n) ==
  [_id |-> n, event |-> payload.event, message |-> payload.message,
   status |-> payload.status, timestamp |-> payload.timestamp]

\* The fields an audit entry took from its event.
FieldsOf(entry) ==
  LogEvent(entry.event, entry.message, entry.status, entry.timestamp)

\* logAuthAction that skips an event it has already stored.
OnLogAuthActionOnce(ack) ==
  /\ authTopic # <<>>
  /\ Len(auditLog) < MaxLog
  /\ auditLog' =
       IF \E i \in DOMAIN auditLog : FieldsOf(auditLog[i]) = Head(authTopic)
         THEN auditLog
       ELSE Append(auditLog, InformationLog(Head(authTopic), Len(auditLog) + 1))
  /\ authTopic' = IF ack THEN Tail(authTopic) ELSE authTopic
  /\ reply' = NoReply
  /\ UNCHANGED <<now, accessExpiresIn, refreshExpiresIn, sessions,
                 nextTokenId, procs, held, bus, users, hashes, userTopic>>

\* The auth service consumes log_auth_action: logAuthAction(payload) saves a
\* new document. The oldest event stays on the topic until a delivery is
\* acknowledged.
OnLogAuthAction(ack) ==
  /\ authTopic # <<>>
  /\ Len(auditLog) < MaxLog
  /\ auditLog' =
       Append(auditLog, InformationLog(Head(authTopic), Len(auditLog) + 1))
  /\ authTopic' = IF ack THEN Tail(authTopic) ELSE authTopic
  /\ reply' = NoReply
  /\ UNCHANGED <<now, accessExpiresIn, refreshExpiresIn, sessions,
                 nextTokenId, procs, held, bus, users, hashes, userTopic>>

\* A call that publishes events through userClient and returns
\* new ResponseDto().
Publish(op, u, events) ==
  /\ HasRoom(userTopic, Len(events))
  /\ userTopic' = userTopic \o events
  /\ reply' = ResponseFor(op, "ResponseDto", u)
  /\ UNCHANGED <<now, accessExpiresIn, refreshExpiresIn, sessions,
                 nextTokenId, procs, held, bus, users, hashes, authTopic,
                 auditLog>>

\* closeAccount that waits for the users service to answer.
CloseAccountAwaited(u) ==
  /\ HasRoom(userTopic, 2)
  /\ userTopic' = userTopic \o
       << Message("log_user_action",
            LogEvent("CLOSE_ACC", <<"closed", u>>, "SUCCESS", now)),
          Message("close_user_account", [userId |-> u]) >>
  /\ reply' = ResponseFor("closeAccount", "pending", u)
  /\ UNCHANGED <<now, accessExpiresIn, refreshExpiresIn, sessions,
                 nextTokenId, procs, held, bus, users, hashes, authTopic,
                 auditLog>>

\* UserService.closeAccount
CloseAccount(u) ==
  Publish("closeAccount", u,
    << Message("log_user_action",
         LogEvent("CLOSE_ACC", <<"closed", u>>, "SUCCESS", now)),
       Message("close_user_account", [userId |-> u]) >>)

\* The payloads of setTwoFa / removeTwoFa (UpdateUserSecurityEventDto).
SecurityPayloads == [userId : Users, twoFaToken : {"token", "none"}]

\* UserService.setTwoFa
SetTwoFa(payload) ==
  Publish("setTwoFa", payload.userId,
    << Message("update_user_security_settings", payload) >>)

\* UserService.removeTwoFa
RemoveTwoFa(payload) ==
  Publish("removeTwoFa", payload.userId,
    << Message("update_user_security_settings", payload) >>)

\* The validation at the head of changePassword.
PasswordsAccepted(password, passwordRepeat) ==
  /\ validatePassword(password)
  /\ validatePassword(passwordRepeat)
  /\ passwordRepeat = password

\* UserService.changePassword
ChangePassword(u, password, passwordRepeat) ==
  IF ~PasswordsAccepted(password, passwordRepeat)
    THEN /\ reply' = Response("changePassword", NoToken, "throw",
                               "ValidationErrorException",
                               [NoPayload EXCEPT !.userId = u])
         /\ UNCHANGED <<now, accessExpiresIn, refreshExpiresIn, sessions,
                        nextTokenId, procs, held, bus, identityVars>>
  ELSE Publish("changePassword", u,
         << Message("update_user_account", [userId |-> u, password |-> password]),
            Message("log_user_action",
              LogEvent("USER", <<"password", u>>, "SUCCESS", now)) >>)

\* A consumer of the users or crypto service takes the oldest event.
ConsumeUserEvent ==
  /\ userTopic # <<>>
  /\ userTopic' = Tail(userTopic)
  /\ reply' = NoReply
  /\ UNCHANGED <<now, accessExpiresIn, refreshExpiresIn, sessions,
                 nextTokenId, procs, held, bus, users, hashes, authTopic,
                 auditLog>>

\* The users service consumes confirm_user_account: the hash is marked
\* confirmed and the account of its user with it.
OnConfirmUserAccount ==
  /\ userTopic # <<>>
  /\ Head(userTopic).topic = "confirm_user_account"
  /\ hashes' = {IF r.id = Head(userTopic).data.hashId
                  THEN [r EXCEPT !.confirmed = TRUE] ELSE r : r \in hashes}
  /\ users' = {IF r.id = Head(userTopic).data.userId
                 THEN [r EXCEPT !.accountConfirm = TRUE] ELSE r : r \in users}
  /\ userTopic' = Tail(userTopic)
  /\ reply' = NoReply
  /\ UNCHANGED <<now, accessExpiresIn, refreshExpiresIn, sessions,
                 nextTokenId, procs, held, bus, authTopic, auditLog>>

\* The row of an account created by sign-up for the user with this id.
UserRow(id, confirmed) ==
  [id |-> id, email |-> Email(id), username |-> Name(id),
   password |-> BcryptHash("pw1"), accountConfirm |-> confirmed]

HashRow(id, confirmed) ==
  [id |-> id, userId |-> id, confirmationHash |-> ConfirmationHashOf(id),
   confirmed |-> confirmed]

\* How far the account of a user has come: not created, created with the
\* hash not yet stored, waiting for confirmation, confirmed.
AccountStates == {"absent", "created", "pending", "confirmed"}

\* The tables as the sign-ups and confirmations before the start left them.
IdentityInit ==
  /\ InitState
  /\ accessExpiresIn = MaxTTL
  /\ refreshExpiresIn = MaxTTL
  /\ \E st \in [Users -> AccountStates] :
       /\ users = {UserRow(u, st[u] = "confirmed") :
                     u \in {v \in Users : st[v] # "absent"}}
       /\ hashes = {HashRow(u, st[u] = "confirmed") :
                      u \in {v \in Users : st[v] \in {"pending", "confirmed"}}}

\* The steps of a call in slot p that follow its start.
Continue(p) ==
  \/ FindOne(p)
  \/ Destroy(p)
  \/ Create(p)
  \/ GetTokenById(p)
  \/ \E u \in Users \cup {Undefined} : RpcReply(p, u)

\* The logout path and the direct session deletion.
Invalidate ==
  \/ \E u \in Users : Logout(u)
  \/ \E m \in bus, ack \in BOOLEAN : OnUserLogout(m, ack)
  \/ \E u \in Users : DeleteRefreshToken(u)

\* Concurrent calls by clients that present the tokens they were given, or
\* none, within one second of the clock.
Next ==
  \/ \E p \in Procs, u \in Users : UpdateTokens(p, u)
  \/ \E p \in Procs, tok \in HeldTokens \cup {EmptyToken} : RefreshToken(p, tok)
  \/ \E p \in Procs : Continue(p)
  \/ Invalidate

Spec == Init /\ [][Next]_vars

\* The same without logout or deletion: a session disappears only by being
\* replaced.
RotationNext ==
  \/ \E p \in Procs, u \in Users : UpdateTokens(p, u)
  \/ \E p \in Procs, tok \in HeldTokens : RefreshToken(p, tok)
  \/ \E p \in Procs : Continue(p)

RotationSpec == Init /\ [][RotationNext]_vars

\* One call at a time, without logout or deletion: a call begins when the
\* call before it has ended.
SequentialNext ==
  \/ \E u \in Users : UpdateTokens(1, u)
  \/ \E tok \in HeldTokens : RefreshToken(1, tok)
  \/ Continue(1)

SequentialSpec == Init /\ [][SequentialNext]_vars

\* One call at a time, where the process can stop inside updateRefreshToken
\* and the call site then starts over.
CrashNext ==
  \/ \E u \in Users : UpdateTokens(1, u)
  \/ \E tok \in HeldTokens : RefreshToken(1, tok)
  \/ Continue(1)
  \/ Crash(1)

CrashSpec == Init /\ [][CrashNext]_vars

\* Concurrent sign-ins and logouts; the event of a logout is delivered at
\* least once.
LogoutNext ==
  \/ \E p \in Procs, u \in Users : UpdateTokens(p, u)
  \/ \E p \in Procs : FindOne(p) \/ Destroy(p) \/ Create(p)
  \/ \E u \in Users : Logout(u)
  \/ \E m \in bus, ack \in BOOLEAN : OnUserLogout(m, ack)

\* The consumer of user_logout keeps consuming: an event that stays on the
\* bus is delivered again until a delivery is acknowledged.
LogoutFairness ==
  \A u \in Users :
    WF_vars(\E ack \in BOOLEAN : OnUserLogout(LogoutEvent(u), ack))

LogoutLiveSpec == Init /\ [][LogoutNext]_vars /\ LogoutFairness

\* The api service runs every continuation of updateRefreshToken that is
\* ready: an await on the store resolves.
IssueFairness ==
  \A p \in Procs : WF_vars(FindOne(p) \/ Destroy(p) \/ Create(p))

IssueLiveSpec == Init /\ [][LogoutNext]_vars /\ IssueFairness

\* One call at a time with logout, where each user signs in once: after a
\* logout the user's clients can only present the tokens they hold.
AfterLogoutNext ==
  \/ \E u \in Users :
       /\ \A h \in held : h._at.payload.userId # u
       /\ UpdateTokens(1, u)
  \/ \E h \in held : RefreshToken(1, h._rt)
  \/ Continue(1)
  \/ \E u \in Users : Logout(u)
  \/ \E m \in bus, ack \in BOOLEAN : OnUserLogout(m, ack)

\* Every await of the call in the slot resolves, and the consumer of
\* user_logout keeps consuming.
AfterLogoutFairness ==
  /\ WF_vars(Continue(1))
  /\ \A u \in Users :
       WF_vars(\E ack \in BOOLEAN : OnUserLogout(LogoutEvent(u), ack))

AfterLogoutSpec == Init /\ [][AfterLogoutNext]_vars /\ AfterLogoutFairness

\* Sign-ins one at a time while the clock advances. The logouts are
\* requested in the first second; the bus delivers their events at any later
\* time, and again until a delivery is acknowledged.
DelayedLogoutNext ==
  \/ Tick
  \/ \E u \in Users : UpdateTokens(1, u)
  \/ FindOne(1) \/ Destroy(1) \/ Create(1)
  \/ \E u \in Users : now = 0 /\ Logout(u)
  \/ \E m \in bus, ack \in BOOLEAN : OnUserLogout(m, ack)

DelayedLogoutSpec == Init /\ [][DelayedLogoutNext]_vars

\* Concurrent sign-ins against a store that can reject any query.
FailingStoreNext ==
  \/ \E p \in Procs, u \in Users : UpdateTokens(p, u)
  \/ \E p \in Procs : FindOne(p) \/ Destroy(p) \/ Create(p)
  \/ \E p \in Procs : StoreFails(p)

FailingStoreSpec == Init /\ [][FailingStoreNext]_vars

\* Concurrent sign-ins and refresh calls with the request and the reply of
\* get_user_by_id as two messages: the users service answers a request at
\* some time, or never.
RpcNext ==
  \/ \E p \in Procs, u \in Users : UpdateTokens(p, u)
  \/ \E p \in Procs, tok \in HeldTokens : RefreshToken(p, tok)
  \/ \E p \in Procs : FindOne(p) \/ Destroy(p) \/ Create(p)
  \/ \E p \in Procs : GetTokenById(p)
  \/ \E m \in bus, u \in Users \cup {Undefined} : GetUserById(m, u)
  \/ \E p \in Procs : OnRpcReply(p)

RpcSpec == Init /\ [][RpcNext]_vars

\* The api service runs every continuation that is ready; nothing obliges
\* the users service to answer.
RpcFairness ==
  \A p \in Procs :
    /\ WF_vars(FindOne(p) \/ Destroy(p) \/ Create(p))
    /\ WF_vars(GetTokenById(p))
    /\ WF_vars(OnRpcReply(p))

RpcLiveSpec == RpcSpec /\ RpcFairness

\* One call at a time while the clock advances, with any string presented
\* as a refresh token.
TimedNext ==
  \/ Tick
  \/ \E u \in Users : UpdateTokens(1, u)
  \/ \E tok \in Presentable : RefreshToken(1, tok)
  \/ Continue(1)
  \/ \E u \in Users : DeleteRefreshToken(u)

TimedSpec == Init /\ [][TimedNext]_vars

\* Sign-ins one at a time while the clock advances, with logout, deletion
\* and verification of the access tokens handed out.
AccessNext ==
  \/ Tick
  \/ \E u \in Users : UpdateTokens(1, u)
  \/ FindOne(1) \/ Destroy(1) \/ Create(1)
  \/ Invalidate
  \/ \E h \in held : VerifyToken(h._at)

AccessSpec == Init /\ [][AccessNext]_vars

\* Sign-ins one at a time against the accounts that exist.
SignInNext ==
  \/ \E e \in Emails, pw \in Passwords : SignIn(1, e, pw)
  \/ FindOne(1) \/ Destroy(1) \/ Create(1)

SignInSpec == IdentityInit /\ [][SignInNext]_vars

\* Sign-up, sign-in and confirmation, one sign-in at a time.
IdentityNext ==
  \/ \E e \in Emails, n \in Names, tac \in BOOLEAN, pw \in Passwords :
       SignUp(e, n, tac, pw)
  \/ \E e \in Emails, pw \in Passwords : SignIn(1, e, pw)
  \/ FindOne(1) \/ Destroy(1) \/ Create(1)
  \/ \E u \in Users : ConfirmAccount(ConfirmationHashOf(u))
  \/ ConsumeUserEvent

IdentitySpec == IdentityInit /\ [][IdentityNext]_vars

\* Confirmations publish audit events, which the auth service consumes.
AuditNext ==
  \/ \E u \in Users : ConfirmAccount(ConfirmationHashOf(u))
  \/ \E ack \in BOOLEAN : OnLogAuthAction(ack)
  \/ ConsumeUserEvent

AuditSpec == IdentityInit /\ [][AuditNext]_vars

\* Confirmations, with the users service marking the hashes it is told of
\* and the auth service storing the audit events.
ConfirmNext ==
  \/ \E u \in Users : ConfirmAccount(ConfirmationHashOf(u))
  \/ OnConfirmUserAccount
  \/ \E ack \in BOOLEAN : OnLogAuthAction(ack)

ConfirmSpec == IdentityInit /\ [][ConfirmNext]_vars

\* The operations that only publish, with the consumers of their events.
PublishNext ==
  \/ \E u \in Users : Logout(u)
  \/ \E u \in Users : CloseAccount(u)
  \/ \E payload \in SecurityPayloads : SetTwoFa(payload)
  \/ \E payload \in SecurityPayloads : RemoveTwoFa(payload)
  \/ \E u \in Users, pw, rp \in Passwords : ChangePassword(u, pw, rp)
  \/ \E m \in bus, ack \in BOOLEAN : OnUserLogout(m, ack)
  \/ ConsumeUserEvent

PublishSpec == Init /\ [][PublishNext]_vars

\* The codec alone, under every configuration of the two lifetimes: up to
\* MaxPairs pairs are generated, the clock advances, and verifyToken is
\* applied to any string.
CodecNext ==
  \/ Tick
  \/ \E u \in Users : GenerateTokens(u)
  \/ \E tok \in Presentable : VerifyToken(tok)

CodecSpec == CodecInit /\ [][CodecNext]_vars

\* ---------------------------------------------------------------- claims

\* C1: for every user, in every state reachable by any interleaving of
\* updateTokens, refreshToken and logout steps, at most one Session row has
\* that userId.
C1_OneSessionPerUser ==
  \A u \in Users : Cardinality(RowsOfUser(sessions, u)) <= 1

\* C2: once a session has been replaced, presenting the refresh token that
\* addressed it creates no new session: a refresh call that was given a
\* refresh token inserts a row only if its lookup found the addressed session.
C2_RotationInvalidatesOldToken ==
  [][\A p \in Procs :
       ( /\ procs[p].op = "refresh"
         /\ procs[p].payload.type = "refresh"
         /\ procs[p].pc = "create"
         /\ NewRow(procs[p]) \in sessions' \ sessions )
       => procs[p].token # Undefined]_vars

\* C3: a refresh call that presented the refresh token of a live session
\* returns a token pair to its caller, and when it has returned the old
\* session id is no longer resolvable and a new session stands in its place.
C3_RefreshReturnsPair ==
  \A p \in Procs :
    ( /\ procs[p].op = "refresh"
      /\ procs[p].payload.type = "refresh"
      /\ procs[p].token # Undefined
      /\ procs[p].ret # "pending" )
    => /\ procs[p].ret = "pair"
       /\ RowsOfToken(sessions, procs[p].payload.id) = {}
       /\ \E r \in sessions : r.via = procs[p].payload.id

\* C4: kind isolation: a token issued as an access token does not pass the
\* verification of the refresh operation, so every refresh call that got past
\* verifyToken was given a token of kind refresh.
C4_KindIsolation ==
  \A p \in Procs :
    procs[p].op = "refresh" => procs[p].payload.type = "refresh"

\* C5: rotation race: of the sessions that refresh calls presenting the same
\* refresh token create for the user the token was issued to, exactly one
\* survives.
C5_RaceLeavesOneSession ==
  \A h \in held :
    Cardinality({r \in RowsOfUser(sessions, h._at.payload.userId) :
                   r.via = h._rt.payload.id}) <= 1

C7_LogoutIdempotent ==
  [][\A u \in Users :
       ( \/ DeleteRefreshToken(u)
         \/ \E ack \in BOOLEAN : OnUserLogout(LogoutEvent(u), ack) )
       => /\ RowsOfUser(sessions', u) = {}
          /\ DestroyWhereUserId(sessions', u) = sessions'
          /\ RowsOfUser(sessions, u) = {} => sessions' = sessions]_vars

C7_Witness ==
  \E u \in Users :
    /\ LogoutEvent(u) \in bus
    /\ RowsOfUser(sessions, u) = {}
    /\ \E h \in held : h._at.payload.userId = u
    /\ sessions # {}

\* C8: round trip: a token verified in the second it was issued, for either
\* kind and every configured lifetime, verifies, and the payload returned
\* carries the kind and the fields it was issued with.
C8_RoundTrip ==
  reply.op = "verifyToken" =>
    /\ \A u \in Users :
         reply.tok = generateAccessToken(u, Email(u), accessExpiresIn, now)
         => /\ reply.ret = "payload"
            /\ reply.payload.type = "access"
            /\ reply.payload.userId = u
            /\ reply.payload.email = Email(u)
    /\ \A id \in 1..MaxIds :
         reply.tok = generateRefreshToken(id, refreshExpiresIn, now).token
         => /\ reply.ret = "payload"
            /\ reply.payload.type = "refresh"
            /\ reply.payload.id = id

C8_Witness ==
  /\ reply.op = "verifyToken"
  /\ reply.ret = "payload"
  /\ reply.tok \in HeldTokens
  /\ reply.tok.payload.iat = now
  /\ reply.tok.payload.type = "refresh"
  /\ now > 0

\* The lifetime the configuration gives a token of this kind.
LifetimeOf(t) ==
  IF t.payload.type = "access" THEN accessExpiresIn ELSE refreshExpiresIn

\* C9: expiry boundary: a token issued at issuedAt with lifetime T verifies at
\* issuedAt + T - 1 and fails with ExpiredTokenException at issuedAt + T + 1;
\* a token that fails as expired fails as expired at every later time.
C9_ExpiryBoundary ==
  [][/\ ( reply'.op = "verifyToken" /\ reply'.tok \in HeldTokens' )
        => /\ now' = reply'.tok.payload.iat + LifetimeOf(reply'.tok) - 1
              => reply'.ret = "payload"
           /\ now' = reply'.tok.payload.iat + LifetimeOf(reply'.tok) + 1
              => reply'.ret = "throw" /\ reply'.error = "ExpiredTokenException"
     /\ \A t \in HeldTokens :
          verifyToken(t, now).error = "ExpiredTokenException"
          => verifyToken(t, now').error = "ExpiredTokenException"]_vars

C9_Witness ==
  /\ reply.op = "verifyToken"
  /\ reply.tok \in HeldTokens
  /\ now = reply.tok.payload.iat + LifetimeOf(reply.tok) + 1
  /\ reply.error = "ExpiredTokenException"

\* C10: verifyToken classifies: a correctly signed token past its expiry
\* throws ExpiredTokenException; a string that is no token or whose
\* signature is invalid throws InvalidTokenException; a correctly signed
\* unexpired token returns its payload.
C10_Classification ==
  reply.op = "verifyToken" =>
    LET t == reply.tok
        signed == t.form = "jwt" /\ t.sig = Secret
    IN /\ (signed /\ now >= t.payload.exp)
          => reply.ret = "throw" /\ reply.error = "ExpiredTokenException"
       /\ ~signed
          => reply.ret = "throw" /\ reply.error = "InvalidTokenException"
       /\ (signed /\ now < t.payload.exp)
          => /\ reply.ret = "payload"
             /\ reply.error = "none"
             /\ reply.payload = t.payload

C10_Witness ==
  /\ reply.op = "verifyToken"
  /\ reply.error = "InvalidTokenException"
  /\ reply.tok.form = "jwt"
  /\ now >= reply.tok.payload.exp

\* C11: the session a refresh call creates belongs to the user who owns the
\* session addressed by the presented refresh token (the user the token was
\* issued to), never to another user.
C11_RefreshKeepsOwner ==
  [][\A p \in Procs :
       ( /\ procs[p].op = "refresh"
         /\ procs[p].payload.type = "refresh"
         /\ procs[p].pc = "create"
         /\ NewRow(procs[p]) \in sessions' \ sessions )
       => \A h \in held :
            h._rt.payload.id = procs[p].payload.id
            => procs[p].userId = h._at.payload.userId]_vars

\* C20: a refresh call given a correctly signed, unexpired refresh token
\* whose session row is absent does not fail at the lookup: it publishes the
\* user request and returns, and when the reply names a user the callback
\* starts updateTokens.
C20_MissedLookupProceeds ==
  [][\A p \in Procs :
       /\ ( /\ procs[p].pc = "lookup"
            /\ procs[p].payload.type = "refresh"
            /\ RowsOfToken(sessions, procs[p].payload.id) = {}
            /\ procs'[p] # procs[p] )
          => /\ procs'[p].pc = "rpc"
             /\ procs'[p].token = Undefined
             /\ RpcRequest(p) \in bus'
             /\ reply'.ret # "throw"
       /\ ( /\ procs[p].pc = "rpc"
            /\ procs[p].token = Undefined
            /\ procs'[p].op = "refresh"
            /\ procs'[p].pc # "rpc" )
          => /\ procs'[p].pc = "findOne"
             /\ procs'[p].userId \in Users]_vars

C20_Witness ==
  \E p \in Procs :
    /\ procs[p].op = "refresh"
    /\ procs[p].payload.type = "refresh"
    /\ procs[p].token = Undefined
    /\ procs[p].pc = "create"
    /\ RowsOfToken(sessions, procs[p].payload.id) = {}

C13_RpcTerminates ==
  \A p \in Procs : (procs[p].pc = "rpc") ~> (procs[p].pc # "rpc")

\* C14: with at-least-once delivery and a fair consumer, every logout(u)
\* that returned is followed by a run of the auth service's handler for the
\* same userId, after which no Session row has that userId.
C14_LogoutReachesHandler ==
  \A u \in Users :
    (reply = ResponseFor("logout", "ResponseDto", u))
    ~> ( /\ reply = ResponseFor("user_logout", "destroyed", u)
         /\ RowsOfUser(sessions, u) = {} )

C14_Witness ==
  \E u \in Users :
    /\ reply = ResponseFor("user_logout", "destroyed", u)
    /\ Cardinality({h \in held : h._at.payload.userId = u}) = 2
    /\ RowsOfUser(sessions, u) = {}
    /\ \E v \in Users : v # u /\ RowsOfUser(sessions, v) # {}

\* C19: an access token that was handed out verifies, with its own payload,
\* at every time before its expiry, whatever has happened to the sessions of
\* its user (logout, rotation, deletion); when it is refused, it is refused
\* as expired.
C19_AccessTokenOutlivesSession ==
  \A h \in held :
    reply.op = "verifyToken" /\ reply.tok = h._at
    => /\ now < h._at.payload.exp
          => reply.ret = "payload" /\ reply.payload = h._at.payload
       /\ now >= h._at.payload.exp
          => reply.ret = "throw" /\ reply.error = "ExpiredTokenException"

C19_Witness ==
  \E h \in held :
    /\ reply.op = "verifyToken"
    /\ reply.tok = h._at
    /\ reply.ret = "payload"
    /\ now > h._at.payload.iat
    /\ RowsOfUser(sessions, h._at.payload.userId) = {}
    /\ RowsOfToken(sessions, h._rt.payload.id) = {}
    /\ sessions # {}

\* C15 as stated: every call of logout, closeAccount, setTwoFa, removeTwoFa
\* and changePassword returns its success response.
C15_PublishersAlwaysSucceed ==
  [][reply'.op \in {"logout", "closeAccount", "setTwoFa", "removeTwoFa",
                    "changePassword"}
     => reply'.ret = "ResponseDto"]_vars

\* C15 as amended: logout, closeAccount, setTwoFa and removeTwoFa return
\* their success response in the step that publishes, whatever is still
\* unconsumed, and touch nothing a consumer owns; changePassword does so
\* when its two passwords pass validation and are equal, and otherwise throws
\* ValidationErrorException having published nothing.
C15_PublishersReturnAtOnce ==
  [][/\ reply'.op \in {"logout", "closeAccount", "setTwoFa", "removeTwoFa"}
        => reply'.ret = "ResponseDto"
     /\ \A u \in Users, pw, rp \in Passwords :
          ChangePassword(u, pw, rp)
          => IF PasswordsAccepted(pw, rp)
               THEN /\ reply'.ret = "ResponseDto"
                    /\ Len(userTopic') = Len(userTopic) + 2
               ELSE /\ reply'.ret = "throw"
                    /\ reply'.error = "ValidationErrorException"
                    /\ userTopic' = userTopic
     /\ reply'.op \in {"logout", "closeAccount", "setTwoFa", "removeTwoFa",
                       "changePassword"}
        => /\ bus \subseteq bus'
           /\ SubSeq(userTopic', 1, Len(userTopic)) = userTopic
           /\ reply'.ret = "ResponseDto"
              => (bus' # bus \/ userTopic' # userTopic \/ reply'.op = "logout")
           /\ UNCHANGED <<sessions, auditLog, users, hashes>>]_vars

C15_Witness ==
  /\ reply.op = "closeAccount"
  /\ reply.ret = "ResponseDto"
  /\ Len(userTopic) = 3
  /\ userTopic[1].topic = "update_user_security_settings"
  /\ \E u \in Users : LogoutEvent(u) \in bus

\* C16: the audit log is append-only: every step leaves the entries already
\* stored as they were, and each delivery of a log_auth_action event, first
\* or repeated, appends exactly one entry with the fields of the event.
C16_AuditLogAppendOnly ==
  [][/\ Len(auditLog') >= Len(auditLog)
     /\ SubSeq(auditLog', 1, Len(auditLog)) = auditLog
     /\ (\E ack \in BOOLEAN : OnLogAuthAction(ack))
        => /\ Len(auditLog') = Len(auditLog) + 1
           /\ FieldsOf(auditLog'[Len(auditLog')]) = Head(authTopic)]_vars

C16_Witness ==
  /\ Len(auditLog) >= 2
  /\ FieldsOf(auditLog[1]) = FieldsOf(auditLog[2])
  /\ auditLog[1] # auditLog[2]
  /\ authTopic # <<>>
  /\ Head(authTopic) = FieldsOf(auditLog[1])

\* C17: for every sign-in that returned a token pair, a log_auth_action
\* event for a successful sign-in has been emitted since that sign-in began.
C17_SignInIsAudited ==
  \A h \in held :
    \/ \E i \in DOMAIN authTopic :
         /\ authTopic[i].event = "SIGN_IN"
         /\ authTopic[i].status = "SUCCESS"
         /\ authTopic[i].timestamp >= h._at.payload.iat
    \/ \E i \in DOMAIN auditLog :
         /\ auditLog[i].event = "SIGN_IN"
         /\ auditLog[i].status = "SUCCESS"
         /\ auditLog[i].timestamp >= h._at.payload.iat

\* C18: every outcome of signUp, signIn and confirmAccount publishes exactly
\* one log_auth_action event, with status SUCCESS when the call succeeded and
\* ERROR when it threw.
C18_EveryOutcomeIsLogged ==
  [][/\ reply'.op \in {"signUp", "signIn", "confirmAccount"}
        => /\ Len(authTopic') = Len(authTopic) + 1
           /\ authTopic'[Len(authTopic')].status =
                IF reply'.ret = "throw" THEN "ERROR" ELSE "SUCCESS"
     /\ (reply'.op = "updateTokens" /\ reply'.ret = "pair")
        => \E i \in DOMAIN authTopic' :
             /\ authTopic'[i].event = "SIGN_IN"
             /\ authTopic'[i].status = "SUCCESS"]_vars

\* C21: within one updateTokens the deletion of the user's current session
\* precedes the insertion of the new one: the step that inserts the new row
\* finds the row its findOne returned already gone; so a stop of the process
\* at any await of the call leaves the user with the old session or with
\* none, a completed call leaves the new one alone, and in no state does a
\* user have both.
C21_DeleteBeforeCreate ==
  [][/\ \A u \in Users : Cardinality(RowsOfUser(sessions, u)) <= 1
     /\ \A p \in Procs :
          /\ ( procs[p].pc = "create" /\ NewRow(procs[p]) \in sessions' )
             => /\ \A r \in sessions' : r.id # procs[p].cur
                /\ RowsOfUser(sessions', procs[p].userId) = {NewRow(procs[p])}
          /\ Crash(p)
             => /\ sessions' = sessions
                /\ NewRow(procs[p]) \notin sessions'
                /\ \/ RowsOfUser(sessions', procs[p].userId) = {}
                   \/ /\ procs[p].pc \in {"findOne", "destroy"}
                      /\ Cardinality(RowsOfUser(sessions', procs[p].userId)) = 1]_vars

\* The process stopped between the deletion and the insertion: the user, who
\* had a session, has none.
C21_Witness ==
  /\ reply.op = "crash"
  /\ RowsOfUser(sessions, reply.payload.userId) = {}
  /\ \E h \in held : h._at.payload.userId = reply.payload.userId
  /\ sessions # {}

\* C22: every call of updateTokens for a user, whether the user has no
\* session, has one, or has another issuance in flight, returns to its caller
\* a pair made of the access token for that user and the refresh token the
\* call generated.
C22_UpdateTokensSucceeds ==
  \A p \in Procs, u \in Users, i \in 1..MaxIds :
    ( /\ procs[p].op = "issue"
      /\ procs[p].userId = u
      /\ procs[p].rtId = i )
    ~> \E h \in held :
         /\ h._at.payload.type = "access"
         /\ h._at.payload.userId = u
         /\ h._rt.payload.type = "refresh"
         /\ h._rt.payload.id = i

\* A call returned its pair although another issuance for the same user ran
\* beside it: both rows are in the table.
C22_Witness ==
  /\ reply.op = "updateTokens"
  /\ reply.ret = "pair"
  /\ \E u \in Users :
       /\ Cardinality(RowsOfUser(sessions, u)) = 2
       /\ Cardinality({h \in held : h._at.payload.userId = u}) >= 2

\* C23: every run of deleteRefreshToken for a user, direct or by a delivery
\* of user_logout, deletes and reports 0 rows or 1 row.
C23_DeleteCountAtMostOne ==
  [][\A u \in Users :
       ( \/ DeleteRefreshToken(u)
         \/ \E ack \in BOOLEAN : OnUserLogout(LogoutEvent(u), ack) )
       => /\ DestroyCount(sessions, u) \in {0, 1}
          /\ Cardinality(sessions \ sessions') = DestroyCount(sessions, u)]_vars

\* C24: a refresh call whose token is absent, malformed, expired or not of
\* kind refresh ends at once with a typed failure: it throws in the step
\* that received the token, takes no slot, generates no token, and leaves the
\* session table and the bus as they were.
C24_VerificationFailureIsTerminal ==
  [][\A p \in Procs, tok \in Presentable :
       ( /\ RefreshToken(p, tok)
         /\ \/ IsFalsy(tok)
            \/ ~JwtVerify(tok, Secret, now).ok
            \/ tok.payload.type # "refresh" )
       => /\ reply'.op = "refreshToken"
          /\ reply'.tok = tok
          /\ reply'.ret = "throw"
          /\ reply'.error \in {"CorruptedTokenException", "ExpiredTokenException",
                               "InvalidTokenException"}
          /\ UNCHANGED <<procs, sessions, bus, held, nextTokenId>>]_vars

\* C25: the row a call of updateTokens inserts carries the id embedded in
\* the refresh token the call generated and the userId embedded in its access
\* token; and when a sequential sign-in has returned its pair, getTokenById
\* with the id of the returned refresh token finds exactly that row, owned by
\* the user of the returned access token.
C25_SessionCarriesTokenId ==
  [][\A p \in Procs :
       /\ ( procs[p].pc = "create" /\ sessions' # sessions )
          => \E r \in sessions' \ sessions :
               /\ sessions' \ sessions = {r}
               /\ r.tokenId = procs[p].rt.payload.id
               /\ r.userId = procs[p].at.payload.userId
       /\ ( /\ procs[p].pc = "create"
            /\ reply'.op = "updateTokens"
            /\ reply'.ret = "pair" )
          => \E h \in held' \ held :
               /\ h = [_at |-> procs[p].at, _rt |-> procs[p].rt]
               /\ \E r \in sessions' :
                    /\ RowsOfToken(sessions', h._rt.payload.id) = {r}
                    /\ r.userId = h._at.payload.userId]_vars

\* A sign-in replaced the user's earlier session and returned: the new
\* refresh token addresses the row in the table, the earlier one no row.
C25_Witness ==
  /\ reply.op = "updateTokens"
  /\ reply.ret = "pair"
  /\ \E h, g \in held :
       /\ h._at.payload.userId = g._at.payload.userId
       /\ RowsOfToken(sessions, h._rt.payload.id) # {}
       /\ RowsOfToken(sessions, g._rt.payload.id) = {}

\* C26: once a delivery of user u's logout has been processed with no call
\* in flight, and with no later sign-in by u, u never has a session again and
\* no session is ever created by presenting a refresh token that was issued
\* to u.
C26_LogoutEndsRefresh ==
  \A u \in Users :
    []( ( /\ reply = ResponseFor("user_logout", "destroyed", u)
          /\ procs[1] = IdleProc
          /\ \E h \in held : h._at.payload.userId = u
          /\ \A r \in sessions, h \in held :
               h._at.payload.userId = u => r.via # h._rt.payload.id )
        => []( /\ RowsOfUser(sessions, u) = {}
               /\ \A r \in sessions, h \in held :
                    h._at.payload.userId = u => r.via # h._rt.payload.id ) )

\* C27: a delivery of a user_logout event deletes only sessions that
\* existed when the logout was requested: with every logout requested in the
\* first second, no delivery deletes a session whose tokens were issued by a
\* sign-in in a later second.
C27_LogoutSparesLaterSession ==
  [][\A m \in bus :
       (\E ack \in BOOLEAN : OnUserLogout(m, ack))
       => \A r \in sessions \ sessions', h \in held :
            h._rt.payload.id = r.tokenId => h._rt.payload.iat = 0]_vars

\* C28: when refreshToken has returned to its caller, the session of the
\* rotation it started is in the table; and a failure of the user lookup or
\* of updateTokens occurs while the caller is still waiting, so that it can
\* be reported to that caller.
C28_RefreshReturnsAfterRotation ==
  [][\A p \in Procs :
       /\ ( procs'[p].op = "refresh" /\ procs'[p].ret # "pending" )
          => \E r \in sessions' : r.via = procs'[p].payload.id
       /\ ( /\ procs[p].op = "refresh"
            /\ procs'[p] = IdleProc
            /\ reply'.ret = "throw" )
          => procs[p].ret = "pending"]_vars

\* C29: updateTokens hands a pair to its caller only in a state where the
\* session carrying the pair's refresh token id and user has been written;
\* a call whose findOne, destroy or create is rejected throws, hands out no
\* pair and writes no row.
C29_PairOnlyAfterPersist ==
  [][/\ \A h \in held' \ held :
          \E r \in sessions' :
            /\ r.tokenId = h._rt.payload.id
            /\ r.userId = h._at.payload.userId
     /\ \A p \in Procs :
          StoreFails(p)
          => /\ reply'.ret = "throw"
             /\ held' = held
             /\ sessions' = sessions
             /\ \A h \in held' : h._rt.payload.id # procs[p].rtId]_vars

\* A sign-in failed at its create after its destroy had run: no pair with
\* the refresh token it generated is held and no row carries its id, while
\* the pair of the user's earlier sign-in is still held.
C29_Witness ==
  /\ reply.op = "updateTokens"
  /\ reply.ret = "throw"
  /\ \A h \in held : h._rt.payload.id # reply.payload.id
  /\ RowsOfToken(sessions, reply.payload.id) = {}
  /\ RowsOfUser(sessions, reply.payload.userId) = {}
  /\ \E h \in held : h._at.payload.userId = reply.payload.userId

\* C30: frame: a step of updateTokens for user u, of a refresh call that
\* presented a token issued to u, or of a session deletion for u (direct or
\* by a delivery of user_logout) leaves the Session rows of every other user
\* as they were.
C30_OtherUsersUntouched ==
  [][/\ \A p \in Procs :
          ( procs[p].op = "issue" /\ procs'[p] # procs[p] )
          => \A v \in Users \ {procs[p].userId} :
               RowsOfUser(sessions', v) = RowsOfUser(sessions, v)
     /\ \A p \in Procs, h \in held :
          ( /\ procs[p].op = "refresh"
            /\ procs[p].tok \in {h._at, h._rt}
            /\ procs'[p] # procs[p] )
          => \A v \in Users \ {h._at.payload.userId} :
               RowsOfUser(sessions', v) = RowsOfUser(sessions, v)
     /\ \A u \in Users :
          ( \/ DeleteRefreshToken(u)
            \/ \E ack \in BOOLEAN : OnUserLogout(LogoutEvent(u), ack) )
          => \A v \in Users \ {u} :
               RowsOfUser(sessions', v) = RowsOfUser(sessions, v)]_vars

\* C31: signIn starts updateTokens, for the user found, only when a user
\* with the e-mail exists, the account is confirmed and the password is the
\* one stored; otherwise it throws WrongCredentialsException (no such user,
\* wrong password) or AccountNotConfirmedException and leaves the session
\* table, the slots and the pairs handed out as they were; and every session
\* written and every pair handed out belongs to a confirmed user.
C31_SignInConditions ==
  [][/\ \A e \in Emails, pw \in Passwords :
          SignIn(1, e, pw)
          => LET found == {r \in users : r.email = e}
                 refused(error) ==
                   /\ reply'.op = "signIn"
                   /\ reply'.ret = "throw"
                   /\ reply'.error = error
                   /\ UNCHANGED <<sessions, procs, held, nextTokenId>>
             IN IF found = {} THEN refused("WrongCredentialsException")
                ELSE \E user \in found :
                       IF ~user.accountConfirm
                         THEN refused("AccountNotConfirmedException")
                       ELSE IF user.password # BcryptHash(pw)
                         THEN refused("WrongCredentialsException")
                       ELSE /\ procs'[1].op = "issue"
                            /\ procs'[1].userId = user.id
                            /\ procs'[1].at.payload.email = user.email
                            /\ sessions' = sessions
     /\ \A r \in sessions' \ sessions :
          \E user \in users : user.id = r.userId /\ user.accountConfirm
     /\ \A h \in held' \ held :
          \E user \in users :
            user.id = h._at.payload.userId /\ user.accountConfirm]_vars

\* A sign-in with a wrong password was refused after an earlier sign-in of
\* the same user had written a session, while another account waits for its
\* confirmation.
C31_Witness ==
  /\ reply.op = "signIn"
  /\ reply.error = "WrongCredentialsException"
  /\ sessions # {}
  /\ held # {}
  /\ \E user \in users : ~user.accountConfirm

\* C32: a signUp that throws (e-mail or user name taken, terms not
\* accepted, invalid e-mail or password, insert rejected) creates no user and
\* publishes nothing; one that returns has created exactly one user row and
\* has published, after it, log_auth_action, user_created and
\* crypto_for_user_created, the last two carrying the id of that row.
C32_SignUpPublishesAfterCreate ==
  [][\A e \in Emails, n \in Names, tac \in BOOLEAN, pw \in Passwords :
       SignUp(e, n, tac, pw)
       => /\ reply'.op = "signUp"
          /\ ( \/ \E r \in users : r.email = e \/ r.username = n
               \/ ~tac
               \/ e = BadEmail
               \/ pw = WeakPassword )
             => reply'.ret = "throw"
          /\ IF reply'.ret = "throw"
               THEN UNCHANGED <<users, authTopic, userTopic>>
             ELSE \E created \in users' \ users :
                    /\ users' = users \cup {created}
                    /\ created.email = e
                    /\ created.username = n
                    /\ \A r \in users : r.id # created.id
                    /\ Len(authTopic') = Len(authTopic) + 1
                    /\ authTopic'[Len(authTopic')].event = "SIGN_UP"
                    /\ authTopic'[Len(authTopic')].status = "SUCCESS"
                    /\ Len(userTopic') = Len(userTopic) + 2
                    /\ SubSeq(userTopic', 1, Len(userTopic)) = userTopic
                    /\ LET first == userTopic'[Len(userTopic) + 1]
                           second == userTopic'[Len(userTopic) + 2]
                       IN /\ first.topic = "user_created"
                          /\ first.data.userId = created.id
                          /\ first.data.email = e
                          /\ second.topic = "crypto_for_user_created"
                          /\ second.data.userId = created.id]_vars

\* A sign-up was refused because its user name is taken, after an earlier
\* sign-up had created a user whose user_created event is still unconsumed.
C32_Witness ==
  /\ reply.op = "signUp"
  /\ reply.error = "UserAlreadyExistsException"
  /\ \E i \in DOMAIN userTopic :
       /\ userTopic[i].topic = "user_created"
       /\ \E r \in users :
            r.id = userTopic[i].data.userId /\ r.email = userTopic[i].data.email

\* C33: confirm_user_account is published at most once for a confirmation
\* hash: the unconsumed events name different hashes, none names a hash
\* that is already marked confirmed, and a confirmAccount call for a hash
\* marked confirmed throws EmailAlreadyConfirmedException and publishes none.
C33_ConfirmedAtMostOnce ==
  [][/\ \A i, j \in DOMAIN userTopic' :
          ( /\ i # j
            /\ userTopic'[i].topic = "confirm_user_account"
            /\ userTopic'[j].topic = "confirm_user_account" )
          => userTopic'[i].data.hashId # userTopic'[j].data.hashId
     /\ \A i \in DOMAIN userTopic', r \in hashes' :
          ( /\ userTopic'[i].topic = "confirm_user_account"
            /\ userTopic'[i].data.hashId = r.id )
          => ~r.confirmed
     /\ \A u \in Users :
          ( /\ ConfirmAccount(ConfirmationHashOf(u))
            /\ \E r \in hashes :
                 r.confirmationHash = ConfirmationHashOf(u) /\ r.confirmed )
          => /\ reply'.error = "EmailAlreadyConfirmedException"
             /\ userTopic' = userTopic]_vars
====
